---- MODULE Spec2Model ----
(***************************************************************************)
(* RingBuffer<T> of ringbuff.cpp: a fixed-capacity circular buffer with an *)
(* overwriting insertion (push, emplace), a rejecting insertion            *)
(* (try_push), removal (pop, try_pop), peeks (front, at), status queries,  *)
(* clear and a forward iterator.                                           *)
(*                                                                         *)
(* The object's members are the variables buffer_, capacity_, head_,       *)
(* tail_ and size_; alive says whether an object exists.  ret is what the  *)
(* last call handed back to its caller: the value returned, the boolean    *)
(* returned, the exception thrown, or the sequence a traversal yielded.    *)
(* requested, pushed, popped, draining and overflowed belong to the        *)
(* caller: they record what the caller asked for and what it got back.     *)
(* trav is the caller's traversal in progress: its iterator, the end       *)
(* marker it compares with, the size the buffer had when the marker was    *)
(* made and the increments made so far.  S is the bounded sequence the     *)
(* buffer is meant to implement.                                           *)
(***************************************************************************)
EXTENDS Integers, Sequences, FiniteSets, TLC

\* Bounds of the model.
MaxCapacity == 3
NumValues == 2
MaxPushes == 5

\* T() : the value a value-initialised slot of std::vector<T>(capacity) holds.
Default == 0

\* The items callers insert, and every value a slot of type T can hold.
Values == 1..NumValues
TVal == 0..NumValues

\* Absent argument or absent return value.
NoVal == 0 - 1

Capacities == 0..MaxCapacity
Indices == 0..(MaxCapacity + 1)

VARIABLES alive, buffer_, capacity_, head_, tail_, size_, ret,
          requested, pushed, popped, draining, overflowed, trav, S

obj == <<alive, buffer_, capacity_, head_, tail_, size_>>
ghosts == <<pushed, popped, draining, overflowed>>
vars == <<alive, buffer_, capacity_, head_, tail_, size_, ret,
          requested, pushed, popped, draining, overflowed, trav, S>>

----------------------------------------------------------------------------
\* Outcomes of a call.

Void == [result |-> "void", exc |-> "none", val |-> NoVal, seq |-> <<>>]
Value(v) == [result |-> "value", exc |-> "none", val |-> v, seq |-> <<>>]
Bool(b) == [result |-> IF b THEN "true" ELSE "false", exc |-> "none", val |-> NoVal, seq |-> <<>>]
Out(v) == [result |-> "true", exc |-> "none", val |-> v, seq |-> <<>>]
Throw(e) == [result |-> "throw", exc |-> e, val |-> NoVal, seq |-> <<>>]
Yield(s) == [result |-> "sequence", exc |-> "none", val |-> NoVal, seq |-> s]

Ret(op, arg, r) ==
    [op |-> op, arg |-> arg, result |-> r.result, exc |-> r.exc, val |-> r.val, seq |-> r.seq]

----------------------------------------------------------------------------
\* Status queries (const member functions).

empty == size_ = 0

\* full() with the comparison slipped to >, which a buffer never satisfies.
full_never == size_ > capacity_

\* full() that answers one element early.
full_off_by_one == size_ = capacity_ - 1

full == size_ = capacity_

size == size_

capacity == capacity_

----------------------------------------------------------------------------
\* Construction.  The member initialisers run first; a zero capacity then
\* throws and the partly built object is unwound, so no object exists.

\* The constructor without its capacity check.
RingBuffer_unchecked(cap) ==
    /\ ~alive
    /\ requested' = cap
    /\ alive' = TRUE
    /\ buffer_' = [i \in 0..(cap - 1) |-> Default]
    /\ capacity_' = cap
    /\ head_' = 0
    /\ tail_' = 0
    /\ size_' = 0
    /\ ret' = Ret("RingBuffer", cap, Void)

RingBuffer(cap) ==
    /\ ~alive
    /\ requested' = cap
    /\ IF cap = 0
         THEN /\ ret' = Ret("RingBuffer", cap, Throw("invalid_argument"))
              /\ UNCHANGED obj
         ELSE /\ alive' = TRUE
              /\ buffer_' = [i \in 0..(cap - 1) |-> Default]
              /\ capacity_' = cap
              /\ head_' = 0
              /\ tail_' = 0
              /\ size_' = 0
              /\ ret' = Ret("RingBuffer", cap, Void)

----------------------------------------------------------------------------
\* Insertion, overwrite mode.

\* push that counts every insertion, full or not.
push_always_counts(item) ==
    /\ buffer_' = [buffer_ EXCEPT ![tail_] = item]
    /\ tail_' = (tail_ + 1) % capacity_
    /\ IF size_ < capacity_
         THEN size_' = size_ + 1 /\ head_' = head_
         ELSE head_' = (head_ + 1) % capacity_ /\ size_' = size_ + 1
    /\ UNCHANGED <<alive, capacity_>>

\* push that forgets to advance head when it overwrites.
push_head_stays(item) ==
    /\ buffer_' = [buffer_ EXCEPT ![tail_] = item]
    /\ tail_' = (tail_ + 1) % capacity_
    /\ IF size_ < capacity_
         THEN size_' = size_ + 1 /\ head_' = head_
         ELSE head_' = head_ /\ size_' = size_
    /\ UNCHANGED <<alive, capacity_>>

push(item) ==
    /\ buffer_' = [buffer_ EXCEPT ![tail_] = item]
    /\ tail_' = (tail_ + 1) % capacity_
    /\ IF size_ < capacity_
         THEN size_' = size_ + 1 /\ head_' = head_
         ELSE head_' = (head_ + 1) % capacity_ /\ size_' = size_
    /\ UNCHANGED <<alive, capacity_>>

\* push(T&&) that advances tail without wrapping it.
push_move_no_wrap(item) ==
    /\ buffer_' = [buffer_ EXCEPT ![tail_] = item]
    /\ tail_' = tail_ + 1
    /\ IF size_ < capacity_
         THEN size_' = size_ + 1 /\ head_' = head_
         ELSE head_' = (head_ + 1) % capacity_ /\ size_' = size_
    /\ UNCHANGED <<alive, capacity_>>

push_move(item) ==
    /\ buffer_' = [buffer_ EXCEPT ![tail_] = item]
    /\ tail_' = (tail_ + 1) % capacity_
    /\ IF size_ < capacity_
         THEN size_' = size_ + 1 /\ head_' = head_
         ELSE head_' = (head_ + 1) % capacity_ /\ size_' = size_
    /\ UNCHANGED <<alive, capacity_>>

\* emplace that does nothing on a full buffer.
emplace_no_overwrite(args) ==
    IF size_ < capacity_
      THEN /\ buffer_' = [buffer_ EXCEPT ![tail_] = args]
           /\ tail_' = (tail_ + 1) % capacity_
           /\ size_' = size_ + 1
           /\ UNCHANGED <<alive, capacity_, head_>>
      ELSE UNCHANGED obj

emplace(args) ==
    /\ buffer_' = [buffer_ EXCEPT ![tail_] = args]
    /\ tail_' = (tail_ + 1) % capacity_
    /\ IF size_ < capacity_
         THEN size_' = size_ + 1 /\ head_' = head_
         ELSE head_' = (head_ + 1) % capacity_ /\ size_' = size_
    /\ UNCHANGED <<alive, capacity_>>

----------------------------------------------------------------------------
\* Insertion, non-overwrite mode.

\* try_push without the full() check.
try_push_overwrite(item) ==
    /\ push(item)
    /\ ret' = Ret("try_push", item, Bool(TRUE))

\* try_push that reports success without inserting.
try_push_no_insert(item) ==
    IF full
      THEN /\ ret' = Ret("try_push", item, Bool(FALSE))
           /\ UNCHANGED obj
      ELSE /\ ret' = Ret("try_push", item, Bool(TRUE))
           /\ UNCHANGED obj

try_push(item) ==
    IF full
      THEN /\ ret' = Ret("try_push", item, Bool(FALSE))
           /\ UNCHANGED obj
      ELSE /\ push(item)
           /\ ret' = Ret("try_push", item, Bool(TRUE))

\* try_push(T&&) without the full() check.
try_push_move_overwrite(item) ==
    /\ push_move(item)
    /\ ret' = Ret("try_push", item, Bool(TRUE))

try_push_move(item) ==
    IF full
      THEN /\ ret' = Ret("try_push", item, Bool(FALSE))
           /\ UNCHANGED obj
      ELSE /\ push_move(item)
           /\ ret' = Ret("try_push", item, Bool(TRUE))

----------------------------------------------------------------------------
\* Removal.  std::move leaves the slot in a valid but unspecified state: any
\* value of T (for a trivially copyable T, the value it had).

\* pop that advances head before it reads the slot.
pop_reads_after_advance ==
    IF empty
      THEN /\ ret' = Ret("pop", NoVal, Throw("out_of_range"))
           /\ UNCHANGED obj
      ELSE \E moved_from \in TVal :
           /\ ret' = Ret("pop", NoVal, Value(buffer_[(head_ + 1) % capacity_]))
           /\ buffer_' = [buffer_ EXCEPT ![(head_ + 1) % capacity_] = moved_from]
           /\ head_' = (head_ + 1) % capacity_
           /\ size_' = size_ - 1
           /\ UNCHANGED <<alive, capacity_, tail_>>

\* pop that advances head before it finds the buffer empty and throws.
pop_advances_then_throws ==
    IF empty
      THEN /\ ret' = Ret("pop", NoVal, Throw("out_of_range"))
           /\ head_' = (head_ + 1) % capacity_
           /\ UNCHANGED <<alive, buffer_, capacity_, tail_, size_>>
      ELSE \E moved_from \in TVal :
           /\ ret' = Ret("pop", NoVal, Value(buffer_[head_]))
           /\ buffer_' = [buffer_ EXCEPT ![head_] = moved_from]
           /\ head_' = (head_ + 1) % capacity_
           /\ size_' = size_ - 1
           /\ UNCHANGED <<alive, capacity_, tail_>>

\* pop that forgets to advance head.
pop_head_stays ==
    IF empty
      THEN /\ ret' = Ret("pop", NoVal, Throw("out_of_range"))
           /\ UNCHANGED obj
      ELSE \E moved_from \in TVal :
           /\ ret' = Ret("pop", NoVal, Value(buffer_[head_]))
           /\ buffer_' = [buffer_ EXCEPT ![head_] = moved_from]
           /\ head_' = head_
           /\ size_' = size_ - 1
           /\ UNCHANGED <<alive, capacity_, tail_>>

pop ==
    IF empty
      THEN /\ ret' = Ret("pop", NoVal, Throw("out_of_range"))
           /\ UNCHANGED obj
      ELSE \E moved_from \in TVal :
           /\ ret' = Ret("pop", NoVal, Value(buffer_[head_]))
           /\ buffer_' = [buffer_ EXCEPT ![head_] = moved_from]
           /\ head_' = (head_ + 1) % capacity_
           /\ size_' = size_ - 1
           /\ UNCHANGED <<alive, capacity_, tail_>>

\* try_pop that forgets to decrement size.
try_pop_keeps_size ==
    IF empty
      THEN /\ ret' = Ret("try_pop", NoVal, Bool(FALSE))
           /\ UNCHANGED obj
      ELSE \E moved_from \in TVal :
           /\ ret' = Ret("try_pop", NoVal, Out(buffer_[head_]))
           /\ buffer_' = [buffer_ EXCEPT ![head_] = moved_from]
           /\ head_' = (head_ + 1) % capacity_
           /\ size_' = size_
           /\ UNCHANGED <<alive, capacity_, tail_>>

try_pop ==
    IF empty
      THEN /\ ret' = Ret("try_pop", NoVal, Bool(FALSE))
           /\ UNCHANGED obj
      ELSE \E moved_from \in TVal :
           /\ ret' = Ret("try_pop", NoVal, Out(buffer_[head_]))
           /\ buffer_' = [buffer_ EXCEPT ![head_] = moved_from]
           /\ head_' = (head_ + 1) % capacity_
           /\ size_' = size_ - 1
           /\ UNCHANGED <<alive, capacity_, tail_>>

----------------------------------------------------------------------------
\* Peek and random access.

\* front without the empty() check.
front_unchecked == Value(buffer_[head_])

front == IF empty THEN Throw("out_of_range") ELSE Value(buffer_[head_])

\* at with the bound check off by one.
at_off_by_one(index) ==
    IF index > size_
      THEN Throw("out_of_range")
      ELSE Value(buffer_[(head_ + index) % capacity_])

at(index) ==
    IF index >= size_
      THEN Throw("out_of_range")
      ELSE Value(buffer_[(head_ + index) % capacity_])

----------------------------------------------------------------------------
\* Clear.

\* clear that leaves tail where it was.
clear_keeps_tail ==
    /\ head_' = 0
    /\ tail_' = tail_
    /\ size_' = 0
    /\ UNCHANGED <<alive, capacity_, buffer_>>

clear ==
    /\ head_' = 0
    /\ tail_' = 0
    /\ size_' = 0
    /\ UNCHANGED <<alive, capacity_, buffer_>>

----------------------------------------------------------------------------
\* Iterator.  data_ptr_ is buffer_.data(), which never moves: dereferencing
\* reads the storage as it is now.

RingBufferIterator(current_logical_index, buffer_head, buffer_capacity) ==
    [current_logical_index_ |-> current_logical_index,
     buffer_head_ |-> buffer_head,
     buffer_capacity_ |-> buffer_capacity]

IterDeref(it) ==
    buffer_[(it.buffer_head_ + it.current_logical_index_) % it.buffer_capacity_]

IterInc(it) ==
    [it EXCEPT !.current_logical_index_ = it.current_logical_index_ + 1]

\* operator== comparing the slots the iterators point at.
IterEq_by_slot(a, b) ==
    (a.buffer_head_ + a.current_logical_index_) % a.buffer_capacity_
        = (b.buffer_head_ + b.current_logical_index_) % b.buffer_capacity_

IterEq(a, b) == a.current_logical_index_ = b.current_logical_index_

\* begin() that starts at slot 0 instead of head.
begin_from_slot_zero == RingBufferIterator(0, 0, capacity_)

begin == RingBufferIterator(0, head_, capacity_)

end == RingBufferIterator(size_, head_, capacity_)

\* for (it = first; it != last; ++it) yield *it;
RECURSIVE Walk(_, _)
Walk(first, last) ==
    IF IterEq(first, last)
      THEN <<>>
      ELSE <<IterDeref(first)>> \o Walk(IterInc(first), last)

\* Range-based for over the buffer, with no mutation in between.
Traverse == Walk(begin, end)

----------------------------------------------------------------------------
\* The logical contents, front to back.
Contents == [k \in 1..size_ |-> buffer_[(head_ + (k - 1)) % capacity_]]

----------------------------------------------------------------------------
Init ==
    /\ alive = FALSE
    /\ buffer_ = [i \in 0..(0 - 1) |-> Default]
    /\ capacity_ = 0
    /\ head_ = 0
    /\ tail_ = 0
    /\ size_ = 0
    /\ ret = Ret("none", NoVal, Void)
    /\ requested = 0
    /\ pushed = <<>>
    /\ popped = <<>>
    /\ draining = FALSE
    /\ overflowed = FALSE
    /\ trav = [active |-> FALSE,
               it |-> RingBufferIterator(0, 0, 0),
               last |-> RingBufferIterator(0, 0, 0),
               captured |-> 0,
               incs |-> 0]
    /\ S = <<>>

\* The calls a single owner can make.  A call on a live buffer leaves the
\* caller's record of the constructor argument alone.
Construct == \E cap \in Capacities : RingBuffer(cap)

CallPush ==
    alive /\ UNCHANGED requested
          /\ \E item \in Values : push(item) /\ ret' = Ret("push", item, Void)

CallPushMove ==
    alive /\ UNCHANGED requested
          /\ \E item \in Values : push_move(item) /\ ret' = Ret("push", item, Void)

CallEmplace ==
    alive /\ UNCHANGED requested
          /\ \E item \in Values : emplace(item) /\ ret' = Ret("emplace", item, Void)

CallTryPush == alive /\ UNCHANGED requested /\ \E item \in Values : try_push(item)

CallTryPushMove == alive /\ UNCHANGED requested /\ \E item \in Values : try_push_move(item)

CallPop == alive /\ UNCHANGED requested /\ pop

CallTryPop == alive /\ UNCHANGED requested /\ try_pop

CallFront ==
    alive /\ UNCHANGED requested /\ ret' = Ret("front", NoVal, front) /\ UNCHANGED obj

CallAt ==
    alive /\ UNCHANGED requested
          /\ \E index \in Indices : ret' = Ret("at", index, at(index)) /\ UNCHANGED obj

CallEmpty ==
    alive /\ UNCHANGED requested /\ ret' = Ret("empty", NoVal, Bool(empty)) /\ UNCHANGED obj

CallFull ==
    alive /\ UNCHANGED requested /\ ret' = Ret("full", NoVal, Bool(full)) /\ UNCHANGED obj

CallSize ==
    alive /\ UNCHANGED requested /\ ret' = Ret("size", NoVal, Value(size)) /\ UNCHANGED obj

CallCapacity ==
    alive /\ UNCHANGED requested
          /\ ret' = Ret("capacity", NoVal, Value(capacity)) /\ UNCHANGED obj

CallClear == alive /\ UNCHANGED requested /\ clear /\ ret' = Ret("clear", NoVal, Void)

CallTraverse ==
    alive /\ UNCHANGED requested
          /\ ret' = Ret("traverse", NoVal, Yield(Traverse)) /\ UNCHANGED obj

----------------------------------------------------------------------------
\* What the caller records about its own calls.

\* Nothing is recorded.
Quiet == UNCHANGED ghosts /\ UNCHANGED <<trav, S>>

\* The item of an accepted insertion, and whether the buffer was full when an
\* overwriting insertion was made.
Inserted ==
    /\ pushed' = IF ret'.result = "false" THEN pushed ELSE Append(pushed, ret'.arg)
    /\ overflowed' = (overflowed \/ (full /\ ret'.result # "false"))
    /\ UNCHANGED <<popped, draining, trav, S>>

\* The item a removal handed back, if it handed one back.
Removed ==
    /\ popped' = IF ret'.result \in {"value", "true"} THEN Append(popped, ret'.val) ELSE popped
    /\ draining' = TRUE
    /\ UNCHANGED <<pushed, overflowed, trav, S>>

----------------------------------------------------------------------------
\* Every interleaving of every call.
Next ==
    \/ Construct /\ Quiet
    \/ CallPush /\ Quiet
    \/ CallPushMove /\ Quiet
    \/ CallEmplace /\ Quiet
    \/ CallTryPush /\ Quiet
    \/ CallTryPushMove /\ Quiet
    \/ CallPop /\ Quiet
    \/ CallTryPop /\ Quiet
    \/ CallFront /\ Quiet
    \/ CallAt /\ Quiet
    \/ CallEmpty /\ Quiet
    \/ CallFull /\ Quiet
    \/ CallSize /\ Quiet
    \/ CallCapacity /\ Quiet
    \/ CallClear /\ Quiet
    \/ CallTraverse /\ Quiet

Spec == Init /\ [][Next]_vars

\* Overwriting insertions into a fresh buffer, then pops: once a pop has been
\* called no further insertion is made.
NextPushPop ==
    \/ Construct /\ Quiet
    \/ ~draining /\ Len(pushed) < MaxPushes /\ CallPush /\ Inserted
    \/ ~draining /\ Len(pushed) < MaxPushes /\ CallPushMove /\ Inserted
    \/ ~draining /\ Len(pushed) < MaxPushes /\ CallEmplace /\ Inserted
    \/ CallPop /\ Removed

SpecPushPop == Init /\ [][NextPushPop]_vars

\* Only try_push, pop and try_pop, in any interleaving.
NextTry ==
    \/ Construct /\ Quiet
    \/ Len(pushed) < MaxPushes /\ CallTryPush /\ Inserted
    \/ Len(pushed) < MaxPushes /\ CallTryPushMove /\ Inserted
    \/ CallPop /\ Removed
    \/ CallTryPop /\ Removed

SpecTry == Init /\ [][NextTry]_vars

----------------------------------------------------------------------------
\* A traversal made step by step, so that other calls can come in between:
\*   auto it = begin(), last = end();  while (it != last) { use(*it); ++it; }

\* it = begin(), last = end(): a new traversal, replacing any earlier one.
IterBegin ==
    /\ alive
    /\ trav' = [active |-> TRUE, it |-> begin, last |-> end,
                captured |-> size_, incs |-> 0]
    /\ ret' = Ret("begin", NoVal, Void)
    /\ UNCHANGED <<obj, requested, ghosts, S>>

\* One round of the loop: it != last held, *it is read, ++it.
IterNext ==
    /\ alive /\ trav.active
    /\ ~IterEq(trav.it, trav.last)
    /\ ret' = Ret("deref", NoVal, Value(IterDeref(trav.it)))
    /\ trav' = [trav EXCEPT !.it = IterInc(trav.it), !.incs = trav.incs + 1]
    /\ UNCHANGED <<obj, requested, ghosts, S>>

\* Traversals with pushes, pops and clears in between their steps.
NextIter ==
    \/ Construct /\ Quiet
    \/ CallPush /\ Quiet
    \/ CallPop /\ Quiet
    \/ CallClear /\ Quiet
    \/ IterBegin
    \/ IterNext

SpecIter == Init /\ [][NextIter]_vars

----------------------------------------------------------------------------
\* The bounded sequence: push appends, first dropping the first element if
\* the length is the capacity; an accepted try_push appends; a removal drops
\* the first element; clear and construction leave the empty sequence.
AbsPush(s, item, cap) == IF Len(s) = cap THEN Append(Tail(s), item) ELSE Append(s, item)

Abstract ==
    /\ S' = CASE ret'.op = "RingBuffer" -> <<>>
              [] ret'.op \in {"push", "emplace"} -> AbsPush(S, ret'.arg, requested)
              [] ret'.op = "try_push" /\ ret'.result = "true" -> Append(S, ret'.arg)
              [] ret'.op \in {"pop", "try_pop"} /\ ret'.result \in {"value", "true"} -> Tail(S)
              [] ret'.op = "clear" -> <<>>
              [] OTHER -> S
    /\ UNCHANGED <<ghosts, trav>>

\* Every interleaving of the calls that change the buffer.
NextRefine ==
    \/ Construct /\ Abstract
    \/ CallPush /\ Abstract
    \/ CallPushMove /\ Abstract
    \/ CallEmplace /\ Abstract
    \/ CallTryPush /\ Abstract
    \/ CallTryPushMove /\ Abstract
    \/ CallPop /\ Abstract
    \/ CallTryPop /\ Abstract
    \/ CallClear /\ Abstract

SpecRefine == Init /\ [][NextRefine]_vars

----------------------------------------------------------------------------
\* C1: on a buffer constructed with capacity c >= 1, size() <= capacity()
\* holds in every reachable state, whatever calls were made, and capacity()
\* still returns c.
CapacityInvariant == alive => (size <= capacity /\ capacity = requested /\ requested >= 1)

\* A push has filled a buffer of the largest capacity whose front has moved off slot 0.
CapacityInvariant_witness ==
    /\ alive /\ capacity = MaxCapacity /\ size = capacity
    /\ ret.op = "push" /\ head_ = 1 /\ tail_ = 1

\* C2: when pushes into a fresh buffer are followed by pops and no push was
\* made while the buffer was full, the pops return the pushed elements in the
\* order they were pushed: the popped elements are the first pushed ones, and
\* what has not been popped is still held.
FifoOrder ==
    (alive /\ ~overflowed) =>
        /\ Len(popped) = Len(pushed) - size
        /\ popped = SubSeq(pushed, 1, Len(popped))

\* A buffer was filled to capacity with differing items and popped empty.
FifoOrder_witness ==
    /\ alive /\ ~overflowed /\ capacity >= 2
    /\ Len(pushed) = capacity /\ Len(popped) = capacity
    /\ pushed[1] # pushed[2]

\* C3: after c+k pushes (k >= 1) into an empty buffer of capacity c and pops
\* until empty(), exactly c elements were popped: the last c pushed, in push
\* order.
OverwriteCorrect ==
    (alive /\ draining /\ size = 0 /\ Len(pushed) > capacity) =>
        popped = SubSeq(pushed, Len(pushed) - capacity + 1, Len(pushed))

\* A buffer of capacity >= 2 took capacity + 2 pushes and was drained.
OverwriteCorrect_witness ==
    /\ alive /\ draining /\ size = 0 /\ capacity >= 2
    /\ Len(pushed) = capacity + 2 /\ Len(popped) = capacity
    /\ popped[1] # popped[2]

\* C4: try_push on a full buffer returns false and leaves size(), front(),
\* every at(i) for 0 <= i < size(), head, tail and every stored element
\* unchanged.
RejectWhenFull ==
    [][(alive /\ ret'.op = "try_push" /\ size = capacity) =>
          /\ ret'.result = "false"
          /\ size' = size
          /\ front' = front
          /\ \A i \in 0..(size - 1) : at(i)' = at(i)
          /\ head_' = head_
          /\ tail_' = tail_
          /\ buffer_' = buffer_]_vars

\* A try_push was rejected by a full buffer whose front is not slot 0.
RejectWhenFull_witness ==
    /\ alive /\ size = capacity /\ head_ # 0
    /\ ret.op = "try_push" /\ ret.result = "false"

\* C5: on a buffer with size() == 0, pop() and front() throw
\* std::out_of_range, and try_pop returns false and leaves head, tail, size
\* and the stored contents unchanged.
EmptyFailure ==
    [][(alive /\ size = 0) =>
          /\ ret'.op = "pop" => (ret'.result = "throw" /\ ret'.exc = "out_of_range")
          /\ ret'.op = "front" => (ret'.result = "throw" /\ ret'.exc = "out_of_range")
          /\ ret'.op = "try_pop" =>
                 /\ ret'.result = "false"
                 /\ UNCHANGED <<head_, tail_, size_, buffer_>>]_vars

\* front() has thrown on a buffer that was emptied by removals.
EmptyFailure_witness ==
    /\ alive /\ size = 0 /\ head_ # 0
    /\ ret.op = "front" /\ ret.exc = "out_of_range"

\* C6: at(i) returns the element of slot (head + i) mod capacity when
\* 0 <= i < size(), and throws std::out_of_range when i >= size().
IndexBounds ==
    (alive /\ ret.op = "at") =>
        IF ret.arg < size
          THEN /\ ret.result = "value"
               /\ ret.val = buffer_[(head_ + ret.arg) % capacity]
          ELSE /\ ret.result = "throw"
               /\ ret.exc = "out_of_range"

\* at(size() - 1) succeeded on a full buffer whose contents wrap around.
IndexBounds_witness ==
    /\ alive /\ ret.op = "at" /\ ret.result = "value"
    /\ size = capacity /\ ret.arg = size - 1 /\ head_ + ret.arg >= capacity

\* C7: after clear() head, tail and size() are 0, empty() is true and
\* capacity() is what it was.
ClearResets ==
    [][(alive /\ ret'.op = "clear") =>
          /\ head_' = 0
          /\ tail_' = 0
          /\ size' = 0
          /\ empty'
          /\ capacity' = capacity]_vars

\* A buffer that had held items in every slot was cleared.
ClearResets_witness ==
    /\ alive /\ ret.op = "clear" /\ capacity = MaxCapacity
    /\ \A i \in 0..(capacity - 1) : buffer_[i] # Default

\* C8: construction with capacity 0 throws std::invalid_argument and leaves
\* no buffer; construction with c >= 1 gives a buffer with size 0,
\* head = tail = 0 and capacity() = c.
ConstructionContract ==
    ret.op = "RingBuffer" =>
        IF ret.arg = 0
          THEN ~alive /\ ret.result = "throw" /\ ret.exc = "invalid_argument"
          ELSE /\ alive /\ ret.result = "void"
               /\ size = 0 /\ head_ = 0 /\ tail_ = 0 /\ capacity = ret.arg

\* Construction with capacity 0 was attempted.
ConstructionContract_witness ==
    ret.op = "RingBuffer" /\ ret.arg = 0 /\ ret.exc = "invalid_argument" /\ ~alive

\* C9: when only try_push, pop and try_pop are called, the elements removed
\* so far followed by the elements held, front to back, are the elements
\* try_push accepted, in the order it accepted them.
NoAcceptedElementLost == alive => (popped \o Contents = pushed)

\* A try_push was rejected after elements had been accepted and removed.
NoAcceptedElementLost_witness ==
    /\ alive /\ size = capacity /\ capacity >= 2
    /\ Len(popped) >= 1 /\ Len(pushed) = Len(popped) + capacity
    /\ ret.op = "try_push" /\ ret.result = "false"

\* C10: try_push on a buffer that is not full returns true and leaves head,
\* tail, size and the stored contents as push of the same item would.
TryPushLikePush ==
    [][(alive /\ ret'.op = "try_push" /\ size # capacity) =>
          /\ ret'.result = "true"
          /\ push(ret'.arg)]_vars

\* A try_push filled the last free slot of a buffer whose contents wrap.
TryPushLikePush_witness ==
    /\ alive /\ ret.op = "try_push" /\ ret.result = "true"
    /\ size = capacity /\ capacity >= 2 /\ head_ # 0

\* C11: try_pop on a buffer that is not empty returns true, writes the
\* element at head (what pop() would return) into out_item, advances head by
\* one modulo capacity, decrements size by one and leaves tail unchanged;
\* pop() from the same state returns that element with the same effect.
TryPopLikePop ==
    [][(alive /\ size # 0) =>
          /\ ret'.op = "try_pop" =>
                 /\ ret'.result = "true"
                 /\ ret'.val = buffer_[head_]
                 /\ head_' = (head_ + 1) % capacity
                 /\ size' = size - 1
                 /\ tail_' = tail_
          /\ ret'.op = "pop" =>
                 /\ ret'.result = "value"
                 /\ ret'.val = buffer_[head_]
                 /\ head_' = (head_ + 1) % capacity
                 /\ size' = size - 1
                 /\ tail_' = tail_]_vars

\* try_pop has removed the element of the last slot, wrapping head to 0.
TryPopLikePop_witness ==
    /\ alive /\ ret.op = "try_pop" /\ ret.result = "true" /\ ret.val \in Values
    /\ capacity >= 2 /\ head_ = 0 /\ size >= 1 /\ tail_ # 0

\* C12: when pop(), front() or at(index) throws, head, tail, size, capacity
\* and every stored element are what they were before the call.
FailureChangesNothing ==
    [][(alive /\ ret'.op \in {"pop", "front", "at"} /\ ret'.result = "throw") =>
          UNCHANGED <<head_, tail_, size_, capacity_, buffer_>>]_vars

\* pop() has thrown on a buffer emptied by removals, with stale items stored.
FailureChangesNothing_witness ==
    /\ alive /\ ret.op = "pop" /\ ret.result = "throw"
    /\ head_ # 0 /\ \E i \in 0..(capacity - 1) : buffer_[i] # Default

\* C13: a traversal from begin() to end() with no mutation in between
\* yields exactly size() elements, the k-th (from 0) being at(k), the element
\* of slot (head + k) mod capacity; on an empty buffer it yields nothing.
TraversalOrder ==
    (alive /\ ret.op = "traverse") =>
        /\ ret.result = "sequence"
        /\ Len(ret.seq) = size
        /\ \A k \in 0..(size - 1) :
               /\ at(k) = Value(ret.seq[k + 1])
               /\ ret.seq[k + 1] = buffer_[(head_ + k) % capacity]

\* A full buffer whose contents wrap around was traversed.
TraversalOrder_witness ==
    /\ alive /\ ret.op = "traverse" /\ size = capacity /\ capacity >= 2
    /\ head_ # 0 /\ ret.seq[1] # ret.seq[2]

\* C14: front(), at(index), empty(), full(), size() and capacity() leave
\* head, tail, size, capacity and the storage unchanged, whether they succeed
\* or throw; empty() is true exactly when size is 0 and full() exactly when
\* size equals capacity.
QueriesReadOnly ==
    [][(alive /\ ret'.op \in {"front", "at", "empty", "full", "size", "capacity"}) =>
          /\ UNCHANGED <<head_, tail_, size_, capacity_, buffer_>>
          /\ ret'.op = "empty" => (ret'.result = IF size_ = 0 THEN "true" ELSE "false")
          /\ ret'.op = "full" => (ret'.result = IF size_ = capacity_ THEN "true" ELSE "false")
          /\ ret'.op = "size" => ret'.val = size_
          /\ ret'.op = "capacity" => ret'.val = capacity_]_vars

\* full() has answered true on a buffer of capacity >= 2.
QueriesReadOnly_witness ==
    /\ alive /\ ret.op = "full" /\ ret.result = "true" /\ capacity >= 2

----------------------------------------------------------------------------
\* The scenario push(1), push(2), push(3), push(4), pop(), try_push(5) on a
\* fresh buffer, with peeks, status queries and traversals made at any point
\* in between.
ScenarioItems == <<1, 2, 3, 4, 5>>

ScenarioPush ==
    /\ alive /\ ~draining /\ Len(pushed) < 4
    /\ UNCHANGED requested
    /\ push(ScenarioItems[Len(pushed) + 1])
    /\ ret' = Ret("push", ScenarioItems[Len(pushed) + 1], Void)
    /\ Inserted

ScenarioPop == ~draining /\ Len(pushed) = 4 /\ CallPop /\ Removed

ScenarioTryPush ==
    /\ alive /\ draining /\ Len(pushed) = 4
    /\ UNCHANGED requested
    /\ try_push(ScenarioItems[5])
    /\ Inserted

NextScenario ==
    \/ Construct /\ Quiet
    \/ ScenarioPush
    \/ ScenarioPop
    \/ ScenarioTryPush
    \/ CallFront /\ Quiet
    \/ CallAt /\ Quiet
    \/ CallFull /\ Quiet
    \/ CallSize /\ Quiet
    \/ CallTraverse /\ Quiet

SpecScenario == Init /\ [][NextScenario]_vars

\* C15: on a capacity-3 buffer, after push(1), push(2), push(3), full() is
\* true and size() is 3; after push(4), front() is 2 and at(0), at(1), at(2)
\* are 2, 3, 4; the next pop() returns 2 and leaves size() 2; try_push(5) then
\* returns true and a traversal yields 3, 4, 5.
ConcreteScenario ==
    (alive /\ capacity = 3) =>
        /\ (~draining /\ Len(pushed) = 3) =>
               /\ full /\ size = 3
               /\ ret.op = "full" => ret.result = "true"
               /\ ret.op = "size" => ret.val = 3
        /\ (~draining /\ Len(pushed) = 4) =>
               /\ front = Value(2)
               /\ at(0) = Value(2) /\ at(1) = Value(3) /\ at(2) = Value(4)
               /\ ret.op = "front" => ret.val = 2
               /\ ret.op = "at" /\ ret.arg < 3 => ret.val = ret.arg + 2
        /\ (draining /\ Len(pushed) = 4) =>
               /\ popped = <<2>>
               /\ size = 2
               /\ ret.op = "pop" => ret.val = 2
        /\ (draining /\ ret.op = "try_push") => ret.result = "true"
        /\ Len(pushed) = 5 =>
               /\ Traverse = <<3, 4, 5>>
               /\ ret.op = "traverse" => ret.seq = <<3, 4, 5>>

\* The whole scenario has run on a capacity-3 buffer and the final traversal
\* has been made.
ConcreteScenario_witness ==
    /\ alive /\ capacity = 3 /\ pushed = ScenarioItems /\ popped = <<2>>
    /\ ret.op = "traverse" /\ ret.seq = <<3, 4, 5>>

\* C16: tail = (head + size) mod capacity in every reachable state.
IndexConsistency == alive => tail_ = (head_ + size) % capacity

\* A buffer holding one element less than its capacity, head past slot 0 and
\* tail wrapped before it.
IndexConsistency_witness ==
    /\ alive /\ capacity = MaxCapacity /\ size = capacity - 1
    /\ head_ = capacity - 1 /\ tail_ = capacity - 2

\* C17: head and tail lie in [0, capacity), and head = tail whenever size is
\* 0 and whenever size equals capacity.
IndexRange ==
    alive =>
        /\ head_ \in 0..(capacity - 1)
        /\ tail_ \in 0..(capacity - 1)
        /\ size = 0 => head_ = tail_
        /\ size = capacity => head_ = tail_

\* A full buffer whose head and tail meet at the last slot.
IndexRange_witness ==
    /\ alive /\ capacity = MaxCapacity /\ size = capacity
    /\ head_ = capacity - 1 /\ tail_ = capacity - 1

\* C18: push and emplace never fail: in every state of a live buffer the call
\* can be made and returns normally.  It writes the item into slot tail and
\* advances tail by one modulo capacity; if size < capacity it increments
\* size and leaves head, otherwise it leaves size and advances head by one
\* modulo capacity, so that exactly the oldest element is dropped and the new
\* item becomes at(size - 1).
PushNeverFails ==
    /\ [](alive => (ENABLED CallPush /\ ENABLED CallPushMove /\ ENABLED CallEmplace))
    /\ [][(alive /\ ret'.op \in {"push", "emplace"}) =>
             /\ ret'.result = "void"
             /\ buffer_' = [buffer_ EXCEPT ![tail_] = ret'.arg]
             /\ tail_' = (tail_ + 1) % capacity
             /\ IF size < capacity
                  THEN /\ size' = size + 1
                       /\ head_' = head_
                       /\ Contents' = Contents \o <<ret'.arg>>
                  ELSE /\ size' = size
                       /\ head_' = (head_ + 1) % capacity
                       /\ Contents' = Tail(Contents) \o <<ret'.arg>>
             /\ at(size_ - 1)' = Value(ret'.arg)]_vars

\* emplace has succeeded on a capacity-1 buffer that holds its item.
PushNeverFails_witness ==
    /\ alive /\ capacity = 1 /\ size = 1 /\ ret.op = "emplace"
    /\ buffer_[0] = ret.arg

\* C19: a traversal that starts at begin() and advances until it compares
\* equal to its end() marker stops after exactly as many increments as the
\* size the buffer had when the marker was made, whatever pushes, pops and
\* clears come in between; a begin()/end() pair taken later is a snapshot of
\* the head and size of that moment.
TraversalBounded ==
    trav.active =>
        /\ trav.it.current_logical_index_ = trav.incs
        /\ trav.incs <= trav.captured
        /\ IterEq(trav.it, trav.last) <=> (trav.incs = trav.captured)
        /\ ret.op = "begin" =>
               /\ trav.incs = 0
               /\ trav.captured = size
               /\ trav.it.buffer_head_ = head_
               /\ trav.last.buffer_head_ = head_
               /\ trav.last.current_logical_index_ = size

\* A traversal of two or more elements has reached its end marker although
\* the buffer was changed meanwhile: head and size are no longer what the
\* traversal captured.
TraversalBounded_witness ==
    /\ alive /\ trav.active /\ IterEq(trav.it, trav.last)
    /\ trav.incs >= 2 /\ trav.incs = trav.captured
    /\ size # trav.captured /\ head_ # trav.it.buffer_head_

\* C20: under every interleaving of push, emplace, try_push, pop, try_pop
\* and clear the buffer implements the bounded sequence S: size = Len(S),
\* at(i) = S[i] for every 0 <= i < size, every removal hands back the first
\* element of S, and a cleared buffer answers every observation as a freshly
\* constructed one does, whatever is left in its storage.
RefinesSequence ==
    [][alive' =>
          /\ size' = Len(S')
          /\ \A i \in 0..(Len(S') - 1) : at(i)' = Value(S'[i + 1])
          /\ (ret'.op \in {"pop", "try_pop"} /\ ret'.result \in {"value", "true"}) =>
                 (S # <<>> /\ ret'.val = Head(S))
          /\ (ret'.op \in {"pop", "try_pop"} /\ S # <<>>) =>
                 ret'.result \in {"value", "true"}
          /\ ret'.op = "clear" =>
                 /\ S' = <<>>
                 /\ empty' /\ ~full'
                 /\ head_' = 0 /\ tail_' = 0
                 /\ front' = Throw("out_of_range")
                 /\ \A i \in Indices : at(i)' = Throw("out_of_range")
                 /\ Traverse' = <<>>]_vars

\* A buffer with items left in every slot of its storage has been cleared.
RefinesSequence_witness ==
    /\ alive /\ ret.op = "clear" /\ S = <<>> /\ capacity >= 2
    /\ \A i \in 0..(capacity - 1) : buffer_[i] \in Values

====
